---- MODULE Spec2Model ----
(***************************************************************************)
(* Model of main.py: the event-driven black-bars overlay.                  *)
(*                                                                         *)
(* The main thread is modelled statement by statement (pc), because a      *)
(* Python signal handler runs on the main thread between two statements    *)
(* and returns to the interrupted statement afterwards (hstack holds the   *)
(* positions of the handlers in progress, innermost first).  The tray      *)
(* thread's Exit handler is one atomic action.  The desktop (foreground    *)
(* window, minimized windows, z-order, monitor lookup) changes only while  *)
(* the main thread waits in PeekMessageW: one check_and_update_state()     *)
(* call sees one snapshot of the desktop.  Window events may be delivered  *)
(* at any time while a hook is installed, whether or not the desktop       *)
(* changed.  The window-manager calls on the taskbar always find it.       *)
(*                                                                         *)
(* Spec is the program when the window-manager calls of cleanup() succeed; *)
(* FaultSpec lets the calls cleanup() makes outside a try block raise;     *)
(* LiveSpec adds to Spec the fairness of the main thread.                  *)
(***************************************************************************)
EXTENDS Integers, Sequences, FiniteSets, TLC

\* ---------------------------------------------------------------- bounds
MaxSignals == 1

\* ------------------------------------------------------- program constants
None == -1

DEFAULT_WINDOW_TITLES == <<"League of Legends (TM) Client", "League of Legends">>

\* ------------------------------------------------------------ the desktop
\* Application windows of the desktop and their (fixed) titles.
AppWindows == {1, 2}

Title(h) ==
    IF h = 1 THEN "League of Legends (TM) Client" ELSE "League of Legends"

\* Title lists load_config() may leave in WINDOW_TITLES: the default (both
\* windows monitored), only the first title (window 2 is then an unmonitored
\* application), and the empty list.
ConfiguredTitles ==
    {DEFAULT_WINDOW_TITLES, <<DEFAULT_WINDOW_TITLES[1]>>, <<>>}

\* Windows the model lets the user minimize, and windows it lets close.
Minimizable == {1}

Closable == {1}

\* Full-screen rectangle (left, top, right, bottom) of the monitor nearest
\* to a window: the desktop has one monitor.
MonitorRectOf(h) == <<0, 0, 1920, 1080>>

\* Handle the window manager gives to the n-th window the program creates.
NewHandle(n) == 100 + n

\* Handles SetWinEventHook returns for the two hooks.
Hook1 == 21
Hook2 == 22

VARIABLES
    \* --- desktop / window manager
    windows,            \* application windows that exist
    foreground,         \* GetForegroundWindow(); 0 = none
    minimized,          \* windows for which IsIconic holds
    zorder,             \* top-level windows, front to back
    monitorOK,          \* GetMonitorInfo succeeds
    taskbarVisible,     \* Shell_TrayWnd (and Start button) shown
    overlay,            \* backdrop windows that exist: handle -> attributes
    created,            \* number of CreateWindowEx calls so far
    winHooks,           \* hooks registered with the window manager
    quitPosted,         \* WM_QUIT is in the message queue
    \* --- globals of main.py
    WINDOW_TITLES,
    black_window_hwnd,
    black_bars_active,
    hook_handles,
    tray_icon,          \* TRUE: a pystray.Icon, FALSE: None
    shutting_down,
    \* --- control
    pc,                 \* position of the main thread
    hstack,             \* positions of the running signal handlers
    ret,                \* caller of check_and_update_state
    trayRunning,        \* the tray thread serves its menu
    signals,            \* signals delivered so far
    exit_code,
    \* --- locals
    foreground_hwnd,    \* check_and_update_state / monitored_hwnd
    monitor_rect,       \* activate_black_bars
    hwnd,               \* create_black_window
    hooks,              \* install_event_hooks
    \* --- history (never read by the program)
    ops,                \* window-manager mutations issued by the current check
    entry,              \* snapshot taken when the current check started
    observed,           \* some check saw a monitored, non-minimized foreground
    quiet,              \* last check returned and the desktop did not change since
    blocked,            \* window whose activation a failed rect lookup blocked; 0 = none
    target,             \* window the black bars were last left active for; 0 = none
    cleanups,           \* cleanup() calls started
    destroyed,          \* backdrop windows destroyed so far
    \* --- failures of window-manager calls
    cleanupFaults,      \* the calls cleanup() makes outside a try block may raise
    failed              \* cleanup steps that raised so far (history)

osVars == <<windows, foreground, minimized, zorder, monitorOK>>
wmVars == <<taskbarVisible, overlay, created, winHooks, quitPosted>>
globalVars == <<black_window_hwnd, black_bars_active, hook_handles, tray_icon, shutting_down>>
ctlVars == <<pc, hstack, ret, trayRunning, signals, exit_code>>
localVars == <<foreground_hwnd, monitor_rect, hwnd, hooks>>
histVars == <<ops, entry, observed, quiet, blocked, target, cleanups, destroyed>>
faultVars == <<cleanupFaults, failed>>

vars == <<windows, foreground, minimized, zorder, monitorOK,
          taskbarVisible, overlay, created, winHooks, quitPosted,
          WINDOW_TITLES, black_window_hwnd, black_bars_active, hook_handles,
          tray_icon, shutting_down,
          pc, hstack, ret, trayRunning, signals, exit_code,
          foreground_hwnd, monitor_rect, hwnd, hooks,
          ops, entry, observed, quiet, blocked, target, cleanups, destroyed,
          cleanupFaults, failed>>

\* ------------------------------------------------------ sequence helpers
Range(s) == {s[i] : i \in DOMAIN s}

Remove(s, x) == SelectSeq(s, LAMBDA y : y # x)

IndexOf(s, x) == CHOOSE i \in DOMAIN s : s[i] = x

\* SetWindowPos(h, after, ...): h is placed immediately behind `after`.
InsertAfter(s, h, after) ==
    LET r == Remove(s, h)
        i == IndexOf(r, after)
    IN  SubSeq(r, 1, i) \o <<h>> \o SubSeq(r, i + 1, Len(r))

BringToTop(s, h) == <<h>> \o Remove(s, h)

\* GetWindow(h, GW_HWNDNEXT): the window below h in z-order, 0 if none.
WindowBelow(s, h) ==
    IF h \notin Range(s) THEN 0
    ELSE LET i == IndexOf(s, h) IN IF i < Len(s) THEN s[i + 1] ELSE 0

\* Z-orders of the application windows.
ZOrders ==
    {z \in {<<a, b>> : a \in AppWindows, b \in AppWindows} : Range(z) = AppWindows}

\* ------------------------------------------------- window query functions
IsWindow(h) == h \in windows \/ h \in DOMAIN overlay

get_window_title(h) ==
    IF h \in windows THEN Title(h)
    ELSE IF h \in DOMAIN overlay THEN "Black Background"
    ELSE ""

is_window_minimized(h) == h \in minimized

is_monitored_window(h) == get_window_title(h) \in Range(WINDOW_TITLES)

get_monitor_rect(h) == IF monitorOK THEN MonitorRectOf(h) ELSE <<>>

get_status_text == IF black_bars_active THEN "Active" ELSE "Inactive"

\* ------------------------------------------------------------- control
Cur == IF hstack = <<>> THEN pc ELSE Head(hstack)

Goto(p) ==
    IF hstack = <<>>
    THEN pc' = p /\ hstack' = hstack
    ELSE pc' = pc /\ hstack' = <<p>> \o Tail(hstack)

NoEntry ==
    [active |-> FALSE, hwnd |-> None, taskbar |-> TRUE, isTarget |-> FALSE,
     drift |-> FALSE, quiet |-> FALSE, rectOK |-> FALSE, shown |-> {},
     overlay |-> <<>>, prev |-> 0]

\* State of the desktop and of the program when main() enters its try block.
Start ==
    /\ windows = AppWindows
    /\ foreground \in AppWindows \cup {0}
    /\ minimized \in SUBSET Minimizable
    /\ zorder \in ZOrders
    /\ monitorOK \in BOOLEAN
    /\ taskbarVisible = TRUE
    /\ overlay = <<>>
    /\ created = 0
    /\ winHooks = {}
    /\ quitPosted = FALSE
    /\ WINDOW_TITLES \in ConfiguredTitles
    /\ black_window_hwnd = None
    /\ black_bars_active = FALSE
    /\ hook_handles = <<>>
    /\ tray_icon = FALSE
    /\ shutting_down = FALSE
    /\ pc = "m_install"
    /\ hstack = <<>>
    /\ ret = "none"
    /\ trayRunning = FALSE
    /\ signals = 0
    /\ exit_code = 0
    /\ foreground_hwnd = 0
    /\ monitor_rect = <<>>
    /\ hwnd = None
    /\ hooks = <<>>
    /\ ops = {}
    /\ entry = NoEntry
    /\ observed = FALSE
    /\ quiet = FALSE
    /\ blocked = 0
    /\ target = 0
    /\ cleanups = 0
    /\ destroyed = 0
    /\ failed = {}

\* The window-manager calls of cleanup() succeed.
Init == Start /\ cleanupFaults = FALSE

\* UnhookWinEvent and the taskbar lookup of show_taskbar() may raise.
FaultInit == Start /\ cleanupFaults = TRUE

\* =========================================================== the desktop
\* The desktop changes while the main thread waits in its message loop.
\* Once shutting_down is set the loop only leaves, and no later statement of
\* the program reads the desktop: its changes are not followed any further.
Idle == hstack = <<>> /\ pc = "m_peek" /\ ~shutting_down

EnvFrame ==
    /\ quiet' = FALSE
    /\ UNCHANGED <<wmVars, WINDOW_TITLES, faultVars, globalVars, ctlVars, localVars,
                   ops, entry, observed, cleanups, destroyed,
                   target>>

\* Another window becomes the foreground window and comes to the front.
SetForeground(w) ==
    /\ Idle
    /\ w \in windows
    /\ w # foreground
    /\ foreground' = w
    /\ zorder' = BringToTop(zorder, w)
    /\ UNCHANGED <<windows, minimized, monitorOK>>
    /\ blocked' = 0
    /\ EnvFrame

Minimize(w) ==
    /\ Idle
    /\ w \in windows \ minimized
    /\ minimized' = minimized \cup {w}
    /\ UNCHANGED <<windows, foreground, zorder, monitorOK>>
    /\ blocked' = 0
    /\ EnvFrame

Restore(w) ==
    /\ Idle
    /\ w \in minimized
    /\ minimized' = minimized \ {w}
    /\ UNCHANGED <<windows, foreground, zorder, monitorOK>>
    /\ blocked' = 0
    /\ EnvFrame

\* Some application window is moved directly behind another top-level window.
Reorder(w, after) ==
    /\ Idle
    /\ w \in windows
    /\ after \in Range(zorder) \ {w}
    /\ zorder' = InsertAfter(zorder, w, after)
    /\ zorder' # zorder
    /\ UNCHANGED <<windows, foreground, minimized, monitorOK>>
    /\ blocked' = 0
    /\ EnvFrame

\* A window closes; if it was the foreground window none is left in front.
CloseWindow(w) ==
    /\ Idle
    /\ w \in windows
    /\ windows' = windows \ {w}
    /\ minimized' = minimized \ {w}
    /\ zorder' = Remove(zorder, w)
    /\ foreground' = IF foreground = w THEN 0 ELSE foreground
    /\ UNCHANGED monitorOK
    /\ blocked' = 0
    /\ EnvFrame

\* The monitor lookup starts or stops failing.
MonitorLookupChanges ==
    /\ Idle
    /\ monitorOK' = ~monitorOK
    /\ UNCHANGED <<windows, foreground, minimized, zorder>>
    /\ UNCHANGED blocked
    /\ EnvFrame

\* ================================================== window-manager effects
\* SetWindowPos / ShowWindow on a backdrop handle; h is a live backdrop.
ShowOverlay(h) == [overlay EXCEPT ![h].visible = TRUE]

HideOverlay(h) == [overlay EXCEPT ![h].visible = FALSE]

\* CreateWindowEx(..., left, top, width, height, ...): a hidden popup.
NewOverlay(h, rect) ==
    [x \in DOMAIN overlay \cup {h} |->
        IF x = h
        THEN [visible |-> FALSE, left |-> rect[1], top |-> rect[2],
              width |-> rect[3] - rect[1], height |-> rect[4] - rect[2]]
        ELSE overlay[x]]

DropOverlay(h) == [x \in DOMAIN overlay \ {h} |-> overlay[x]]

VisibleOverlays == {h \in DOMAIN overlay : overlay[h].visible}

\* ============================================================ main thread
\* install_event_hooks(): each SetWinEventHook call may return 0.
install_event_hooks ==
    /\ hstack = <<>> /\ pc = "m_install"
    /\ \E ok1 \in BOOLEAN, ok2 \in BOOLEAN :
          /\ winHooks' = (IF ok1 THEN {Hook1} ELSE {}) \cup (IF ok2 THEN {Hook2} ELSE {})
          /\ hooks' = (IF ok1 THEN <<Hook1>> ELSE <<>>) \o (IF ok2 THEN <<Hook2>> ELSE <<>>)
    /\ pc' = "m_assign"
    /\ UNCHANGED <<osVars, taskbarVisible, overlay, created, quitPosted,
                   WINDOW_TITLES, faultVars, globalVars, hstack, ret, trayRunning, signals,
                   exit_code, foreground_hwnd, monitor_rect, hwnd, histVars>>

\* hook_handles = install_event_hooks()
main_assign_hooks ==
    /\ hstack = <<>> /\ pc = "m_assign"
    /\ hook_handles' = hooks
    /\ pc' = "m_checkhooks"
    /\ UNCHANGED <<osVars, wmVars, WINDOW_TITLES, faultVars, black_window_hwnd,
                   black_bars_active, tray_icon, shutting_down, hstack, ret,
                   trayRunning, signals, exit_code, localVars, histVars>>

\* if not hook_handles: sys.exit(1)
main_check_hooks ==
    /\ hstack = <<>> /\ pc = "m_checkhooks"
    /\ IF hook_handles = <<>>
       THEN pc' = "m_finally" /\ exit_code' = 1
       ELSE pc' = "m_tray" /\ exit_code' = exit_code
    /\ UNCHANGED <<osVars, wmVars, WINDOW_TITLES, faultVars, globalVars, hstack, ret,
                   trayRunning, signals, localVars, histVars>>

\* tray_icon = setup_tray_icon(); tray_thread.start()
main_start_tray ==
    /\ hstack = <<>> /\ pc = "m_tray"
    /\ tray_icon' = TRUE
    /\ trayRunning' = TRUE
    /\ pc' = "m_initial"
    /\ UNCHANGED <<osVars, wmVars, WINDOW_TITLES, faultVars, black_window_hwnd,
                   black_bars_active, hook_handles, shutting_down, hstack, ret,
                   signals, exit_code, localVars, histVars>>

\* Variant: main() enters the message loop without the eager check.
main_initial_check_skipped ==
    /\ hstack = <<>> /\ pc = "m_initial"
    /\ pc' = "m_loop"
    /\ ret' = "initial"
    /\ UNCHANGED <<osVars, wmVars, WINDOW_TITLES, faultVars, globalVars, hstack,
                   trayRunning, signals, exit_code, localVars, histVars>>

\* check_and_update_state()  (initial state)
main_initial_check ==
    /\ hstack = <<>> /\ pc = "m_initial"
    /\ pc' = "c_fg"
    /\ ret' = "initial"
    /\ UNCHANGED <<osVars, wmVars, WINDOW_TITLES, faultVars, globalVars, hstack,
                   trayRunning, signals, exit_code, localVars, histVars>>

\* while not shutting_down:  (first test, after the initial check)
main_loop_test ==
    /\ hstack = <<>> /\ pc = "m_loop"
    /\ pc' = IF shutting_down THEN "m_finally" ELSE "m_peek"
    /\ UNCHANGED <<osVars, wmVars, WINDOW_TITLES, faultVars, globalVars, hstack, ret,
                   trayRunning, signals, exit_code, localVars, histVars>>

\* Inside PeekMessageW a pending window event is delivered to
\* win_event_callback.
peek_deliver_event ==
    /\ hstack = <<>> /\ pc = "m_peek"
    /\ winHooks # {}
    /\ pc' = "cb_entry"
    /\ UNCHANGED <<osVars, wmVars, WINDOW_TITLES, faultVars, globalVars, hstack, ret,
                   trayRunning, signals, exit_code, localVars, histVars>>

\* PeekMessageW returns WM_QUIT: break
peek_quit ==
    /\ hstack = <<>> /\ pc = "m_peek"
    /\ quitPosted
    /\ quitPosted' = FALSE
    /\ pc' = "m_finally"
    /\ UNCHANGED <<osVars, taskbarVisible, overlay, created, winHooks,
                   WINDOW_TITLES, faultVars, globalVars, hstack, ret, trayRunning, signals,
                   exit_code, localVars, histVars>>

\* PeekMessageW returns 0 (or another message is dispatched), the loop
\* sleeps and tests shutting_down again: the loop is left once it is set.
peek_none_loop_exit ==
    /\ hstack = <<>> /\ pc = "m_peek"
    /\ shutting_down
    /\ pc' = "m_finally"
    /\ UNCHANGED <<osVars, wmVars, WINDOW_TITLES, faultVars, globalVars, hstack, ret,
                   trayRunning, signals, exit_code, localVars, histVars>>

\* Variant: the callback does not look at shutting_down.
win_event_callback_unguarded ==
    /\ hstack = <<>> /\ pc = "cb_entry"
    /\ pc' = "c_fg" /\ ret' = "callback"
    /\ UNCHANGED <<osVars, wmVars, WINDOW_TITLES, faultVars, globalVars, hstack,
                   trayRunning, signals, exit_code, localVars, histVars>>

\* win_event_callback: if shutting_down: return; check_and_update_state()
win_event_callback ==
    /\ hstack = <<>> /\ pc = "cb_entry"
    /\ IF shutting_down
       THEN pc' = "m_peek" /\ ret' = ret
       ELSE pc' = "c_fg" /\ ret' = "callback"
    /\ UNCHANGED <<osVars, wmVars, WINDOW_TITLES, faultVars, globalVars, hstack,
                   trayRunning, signals, exit_code, localVars, histVars>>

\* finally: cleanup()
main_finally ==
    /\ hstack = <<>> /\ pc = "m_finally"
    /\ pc' = "k_tray"
    /\ UNCHANGED <<osVars, wmVars, WINDOW_TITLES, faultVars, globalVars, hstack, ret,
                   trayRunning, signals, exit_code, localVars, histVars>>

\* ================================================ check_and_update_state
\* Positions of the main thread inside check_and_update_state() and the
\* functions it calls.
CheckPositions ==
    {"c_fg", "a_rect", "a_none", "a_create", "a_assign", "a_show", "a_hidetb",
     "a_active", "d_hide", "d_showtb", "d_inactive", "z_none", "z_fix", "c_ret"}

InCheck(p) == hstack = <<>> /\ pc = p

\* An exception leaves check_and_update_state: main() catches it around the
\* initial call, ctypes swallows it when it leaves win_event_callback.
Raise ==
    /\ pc' = IF ret = "initial" THEN "m_finally" ELSE "m_peek"
    /\ hstack' = hstack
    /\ quiet' = FALSE
    /\ ops' = {}
    /\ entry' = NoEntry
    /\ foreground_hwnd' = 0
    /\ monitor_rect' = <<>>
    /\ hwnd' = None

IsTarget(h) == is_monitored_window(h) /\ ~is_window_minimized(h)

\* Variant: the target test forgets the title (any non-minimized foreground
\* window counts as monitored).
check_ignores_title ==
    /\ InCheck("c_fg")
    /\ foreground_hwnd' = foreground
    /\ pc' = IF ~is_window_minimized(foreground)
             THEN (IF ~black_bars_active THEN "a_rect" ELSE "z_none")
             ELSE (IF black_bars_active THEN "d_hide" ELSE "c_ret")
    /\ ops' = {}
    /\ entry' = [active |-> black_bars_active, hwnd |-> black_window_hwnd,
                 taskbar |-> taskbarVisible, isTarget |-> IsTarget(foreground),
                 drift |-> WindowBelow(zorder, foreground) # black_window_hwnd,
                 quiet |-> quiet, rectOK |-> monitorOK,
                 shown |-> VisibleOverlays, overlay |-> overlay,
                 prev |-> target]
    /\ observed' = (observed \/ IsTarget(foreground))
    /\ UNCHANGED <<osVars, wmVars, WINDOW_TITLES, faultVars, globalVars, hstack, ret,
                   trayRunning, signals, exit_code, monitor_rect, hwnd, hooks,
                   quiet, blocked, cleanups, destroyed, target>>

\* foreground_hwnd = get_foreground_window(); the if/else on the target test
check_and_update_state ==
    /\ InCheck("c_fg")
    /\ foreground_hwnd' = foreground
    /\ pc' = IF IsTarget(foreground)
             THEN (IF ~black_bars_active THEN "a_rect" ELSE "z_none")
             ELSE (IF black_bars_active THEN "d_hide" ELSE "c_ret")
    /\ ops' = {}
    /\ entry' = [active |-> black_bars_active, hwnd |-> black_window_hwnd,
                 taskbar |-> taskbarVisible, isTarget |-> IsTarget(foreground),
                 drift |-> WindowBelow(zorder, foreground) # black_window_hwnd,
                 quiet |-> quiet, rectOK |-> monitorOK,
                 shown |-> VisibleOverlays, overlay |-> overlay,
                 prev |-> target]
    /\ observed' = (observed \/ IsTarget(foreground))
    /\ UNCHANGED <<osVars, wmVars, WINDOW_TITLES, faultVars, globalVars, hstack, ret,
                   trayRunning, signals, exit_code, monitor_rect, hwnd, hooks,
                   quiet, blocked, cleanups, destroyed,
                   target>>

\* Variant: a failed monitor lookup does not stop the activation, which
\* goes on with an empty rectangle.
activate_get_rect_ignores_failure ==
    /\ InCheck("a_rect")
    /\ monitor_rect' = IF monitorOK THEN get_monitor_rect(foreground_hwnd)
                       ELSE <<0, 0, 0, 0>>
    /\ pc' = "a_none"
    /\ blocked' = IF ~monitorOK THEN foreground_hwnd ELSE blocked
    /\ UNCHANGED <<osVars, wmVars, WINDOW_TITLES, faultVars, globalVars, hstack, ret,
                   trayRunning, signals, exit_code, foreground_hwnd, hwnd, hooks,
                   ops, entry, observed, quiet, cleanups, destroyed, target>>

\* monitor_rect = get_monitor_rect(monitored_hwnd); if not monitor_rect: return
activate_get_rect ==
    /\ InCheck("a_rect")
    /\ monitor_rect' = get_monitor_rect(foreground_hwnd)
    /\ pc' = IF monitor_rect' = <<>> THEN "c_ret" ELSE "a_none"
    /\ blocked' = IF monitor_rect' = <<>> THEN foreground_hwnd ELSE blocked
    /\ UNCHANGED <<osVars, wmVars, WINDOW_TITLES, faultVars, globalVars, hstack, ret,
                   trayRunning, signals, exit_code, foreground_hwnd, hwnd, hooks,
                   ops, entry, observed, quiet, cleanups, destroyed,
                   target>>

\* Variant: the backdrop is created on every activation.
activate_always_creates ==
    /\ InCheck("a_none")
    /\ pc' = "a_create"
    /\ UNCHANGED <<osVars, wmVars, WINDOW_TITLES, faultVars, globalVars, hstack, ret,
                   trayRunning, signals, exit_code, localVars, histVars>>

\* if black_window_hwnd is None:
activate_test_none ==
    /\ InCheck("a_none")
    /\ pc' = IF black_window_hwnd = None THEN "a_create" ELSE "a_show"
    /\ UNCHANGED <<osVars, wmVars, WINDOW_TITLES, faultVars, globalVars, hstack, ret,
                   trayRunning, signals, exit_code, localVars, histVars>>

\* create_black_window(monitor_rect): CreateWindowEx makes a hidden popup
\* on top of the z-order.
create_black_window ==
    /\ InCheck("a_create")
    /\ created' = created + 1
    /\ hwnd' = NewHandle(created')
    /\ overlay' = NewOverlay(hwnd', monitor_rect)
    /\ zorder' = <<hwnd'>> \o zorder
    /\ ops' = ops \cup {"create"}
    /\ pc' = "a_assign"
    /\ UNCHANGED <<windows, foreground, minimized, monitorOK, taskbarVisible,
                   winHooks, quitPosted, WINDOW_TITLES, faultVars, globalVars, hstack, ret,
                   trayRunning, signals, exit_code, foreground_hwnd,
                   monitor_rect, hooks, entry, observed, quiet, blocked,
                   cleanups, destroyed,
                   target>>

\* black_window_hwnd = create_black_window(monitor_rect)
activate_assign_hwnd ==
    /\ InCheck("a_assign")
    /\ black_window_hwnd' = hwnd
    /\ pc' = "a_show"
    /\ UNCHANGED <<osVars, wmVars, WINDOW_TITLES, faultVars, black_bars_active,
                   hook_handles, tray_icon, shutting_down, hstack, ret,
                   trayRunning, signals, exit_code, localVars, histVars>>

\* show_black_window(black_window_hwnd, monitored_hwnd): SetWindowPos with
\* SWP_SHOWWINDOW; raises when the handle is None or no longer a window.
show_black_window ==
    /\ InCheck("a_show")
    /\ IF black_window_hwnd \in DOMAIN overlay /\ foreground_hwnd \in Range(zorder)
       THEN /\ overlay' = ShowOverlay(black_window_hwnd)
            /\ zorder' = InsertAfter(zorder, black_window_hwnd, foreground_hwnd)
            /\ ops' = ops \cup {"show"}
            /\ pc' = "a_hidetb"
            /\ UNCHANGED <<hstack, quiet, entry, localVars>>
       ELSE /\ Raise
            /\ UNCHANGED <<overlay, zorder, hooks>>
    /\ UNCHANGED <<windows, foreground, minimized, monitorOK, taskbarVisible,
                   created, winHooks, quitPosted, WINDOW_TITLES, faultVars, globalVars, ret,
                   trayRunning, signals, exit_code, observed, blocked, cleanups,
                   destroyed,
                   target>>

\* Variant: the activation does not hide the taskbar.
hide_taskbar_skipped ==
    /\ InCheck("a_hidetb")
    /\ ops' = ops
    /\ pc' = "a_active"
    /\ UNCHANGED <<osVars, wmVars, WINDOW_TITLES, faultVars, globalVars, hstack, ret,
                   trayRunning, signals, exit_code, localVars, entry, observed,
                   quiet, blocked, cleanups, destroyed, target>>

\* hide_taskbar()
hide_taskbar ==
    /\ InCheck("a_hidetb")
    /\ taskbarVisible' = FALSE
    /\ ops' = ops \cup {"hide_taskbar"}
    /\ pc' = "a_active"
    /\ UNCHANGED <<osVars, overlay, created, winHooks, quitPosted,
                   WINDOW_TITLES, faultVars, globalVars, hstack, ret, trayRunning, signals,
                   exit_code, localVars, entry, observed, quiet, blocked,
                   cleanups, destroyed,
                   target>>

\* black_bars_active = True
activate_set_active ==
    /\ InCheck("a_active")
    /\ black_bars_active' = TRUE
    /\ pc' = "c_ret"
    /\ UNCHANGED <<osVars, wmVars, WINDOW_TITLES, faultVars, black_window_hwnd,
                   hook_handles, tray_icon, shutting_down, hstack, ret,
                   trayRunning, signals, exit_code, localVars, histVars>>

\* if black_window_hwnd: hide_black_window(black_window_hwnd)
\* (ShowWindow on a dead handle raises inside the try and is swallowed)
hide_black_window ==
    /\ InCheck("d_hide")
    /\ IF black_window_hwnd # None /\ black_window_hwnd # 0
       THEN /\ overlay' = IF black_window_hwnd \in DOMAIN overlay
                          THEN HideOverlay(black_window_hwnd) ELSE overlay
            /\ ops' = ops \cup {"hide"}
       ELSE UNCHANGED <<overlay, ops>>
    /\ pc' = "d_showtb"
    /\ UNCHANGED <<osVars, taskbarVisible, created, winHooks, quitPosted,
                   WINDOW_TITLES, faultVars, globalVars, hstack, ret, trayRunning, signals,
                   exit_code, localVars, entry, observed, quiet, blocked,
                   cleanups, destroyed,
                   target>>

\* show_taskbar()  (in deactivate_black_bars)
deactivate_show_taskbar ==
    /\ InCheck("d_showtb")
    /\ taskbarVisible' = TRUE
    /\ ops' = ops \cup {"show_taskbar"}
    /\ pc' = "d_inactive"
    /\ UNCHANGED <<osVars, overlay, created, winHooks, quitPosted,
                   WINDOW_TITLES, faultVars, globalVars, hstack, ret, trayRunning, signals,
                   exit_code, localVars, entry, observed, quiet, blocked,
                   cleanups, destroyed,
                   target>>

\* Variant: the deactivation forgets to clear the flag.
deactivate_keeps_flag ==
    /\ InCheck("d_inactive")
    /\ black_bars_active' = black_bars_active
    /\ pc' = "c_ret"
    /\ UNCHANGED <<osVars, wmVars, WINDOW_TITLES, faultVars, black_window_hwnd,
                   hook_handles, tray_icon, shutting_down, hstack, ret,
                   trayRunning, signals, exit_code, localVars, histVars>>

\* black_bars_active = False
deactivate_set_inactive ==
    /\ InCheck("d_inactive")
    /\ black_bars_active' = FALSE
    /\ pc' = "c_ret"
    /\ UNCHANGED <<osVars, wmVars, WINDOW_TITLES, faultVars, black_window_hwnd,
                   hook_handles, tray_icon, shutting_down, hstack, ret,
                   trayRunning, signals, exit_code, localVars, histVars>>

\* ensure_black_window_z_order: if black_window_hwnd is None: return
ensure_test_none ==
    /\ InCheck("z_none")
    /\ pc' = IF black_window_hwnd = None THEN "c_ret" ELSE "z_fix"
    /\ UNCHANGED <<osVars, wmVars, WINDOW_TITLES, faultVars, globalVars, hstack, ret,
                   trayRunning, signals, exit_code, localVars, histVars>>

\* Variant: the z-order is re-asserted without looking at the window below.
ensure_always_repositions ==
    /\ InCheck("z_fix")
    /\ zorder' = IF black_window_hwnd \in DOMAIN overlay
                    /\ foreground_hwnd \in Range(zorder)
                 THEN InsertAfter(zorder, black_window_hwnd, foreground_hwnd)
                 ELSE zorder
    /\ ops' = ops \cup {"reposition"}
    /\ pc' = "c_ret"
    /\ UNCHANGED <<windows, foreground, minimized, monitorOK, wmVars,
                   WINDOW_TITLES, faultVars, globalVars, hstack, ret, trayRunning, signals,
                   exit_code, localVars, entry, observed, quiet, blocked,
                   cleanups, destroyed, target>>

\* Variant: a drifted backdrop is left where it is.
ensure_never_repositions ==
    /\ InCheck("z_fix")
    /\ pc' = "c_ret"
    /\ UNCHANGED <<osVars, wmVars, WINDOW_TITLES, faultVars, globalVars, hstack, ret,
                   trayRunning, signals, exit_code, localVars, histVars>>

\* Variant: a drifted backdrop is sent to the bottom of the z-order
\* instead of behind the monitored window.
ensure_sends_to_bottom ==
    /\ InCheck("z_fix")
    /\ IF WindowBelow(zorder, foreground_hwnd) # black_window_hwnd
       THEN /\ zorder' = IF black_window_hwnd \in DOMAIN overlay
                         THEN Remove(zorder, black_window_hwnd) \o <<black_window_hwnd>>
                         ELSE zorder
            /\ ops' = ops \cup {"reposition"}
       ELSE UNCHANGED <<zorder, ops>>
    /\ pc' = "c_ret"
    /\ UNCHANGED <<windows, foreground, minimized, monitorOK, wmVars,
                   WINDOW_TITLES, faultVars, globalVars, hstack, ret, trayRunning, signals,
                   exit_code, localVars, entry, observed, quiet, blocked,
                   cleanups, destroyed, target>>

\* window_below = GetWindow(monitored_hwnd, GW_HWNDNEXT); if it is not the
\* black window: SetWindowPos without SWP_SHOWWINDOW (errors are swallowed)
ensure_black_window_z_order ==
    /\ InCheck("z_fix")
    /\ IF WindowBelow(zorder, foreground_hwnd) # black_window_hwnd
       THEN /\ zorder' = IF black_window_hwnd \in DOMAIN overlay
                            /\ foreground_hwnd \in Range(zorder)
                         THEN InsertAfter(zorder, black_window_hwnd, foreground_hwnd)
                         ELSE zorder
            /\ ops' = ops \cup {"reposition"}
       ELSE UNCHANGED <<zorder, ops>>
    /\ pc' = "c_ret"
    /\ UNCHANGED <<windows, foreground, minimized, monitorOK, wmVars,
                   WINDOW_TITLES, faultVars, globalVars, hstack, ret, trayRunning, signals,
                   exit_code, localVars, entry, observed, quiet, blocked,
                   cleanups, destroyed,
                   target>>

\* check_and_update_state returns to its caller
check_return ==
    /\ InCheck("c_ret")
    /\ pc' = IF ret = "initial" THEN "m_loop" ELSE "m_peek"
    /\ quiet' = (signals = 0)
    /\ ops' = {}
    /\ entry' = NoEntry
    /\ foreground_hwnd' = 0
    /\ monitor_rect' = <<>>
    /\ hwnd' = None
    /\ blocked' = IF black_bars_active THEN 0 ELSE blocked
    /\ target' = IF black_bars_active THEN foreground_hwnd ELSE 0
    /\ UNCHANGED <<osVars, wmVars, WINDOW_TITLES, faultVars, globalVars, hstack, ret,
                   trayRunning, signals, exit_code, hooks, observed, cleanups,
                   destroyed>>

\* ================================================================ cleanup
\* cleanup() runs on the main thread, called by main()'s finally clause or
\* by signal_handler; At(p) is the statement about to execute.
At(p) == Cur = p

\* if tray_icon: tray_icon.stop(); tray_icon = None
cleanup_stop_tray ==
    /\ At("k_tray")
    /\ tray_icon' = FALSE
    /\ trayRunning' = IF tray_icon THEN FALSE ELSE trayRunning
    /\ cleanups' = cleanups + 1
    /\ quiet' = FALSE
    /\ Goto("k_unhook")
    /\ UNCHANGED <<osVars, wmVars, WINDOW_TITLES, faultVars, black_window_hwnd,
                   black_bars_active, hook_handles, shutting_down, ret, signals,
                   exit_code, localVars, ops, entry, observed, blocked, target,
                   destroyed>>

\* An exception leaves cleanup().  Called from main()'s finally clause it
\* leaves main() (traceback, exit status 1).  Called from signal_handler it
\* unwinds every handler in progress and surfaces at the interrupted
\* statement of main(): ctypes swallows it inside win_event_callback, the
\* except clause of main() catches it inside the try block (the finally
\* clause follows), and from the finally clause it leaves main().
CleanupRaises ==
    LET inCallback ==
            pc = "cb_entry" \/ (pc \in CheckPositions /\ ret = "callback")
        inTry ==
            \/ pc \in {"m_install", "m_assign", "m_checkhooks", "m_tray",
                       "m_initial", "m_loop", "m_peek"}
            \/ (pc \in CheckPositions /\ ret = "initial")
    IN  /\ hstack' = <<>>
        /\ IF hstack # <<>> /\ inCallback
           THEN pc' = "m_peek" /\ exit_code' = exit_code
           ELSE IF hstack # <<>> /\ inTry
           THEN pc' = "m_finally" /\ exit_code' = exit_code
           ELSE pc' = "done" /\ exit_code' = 1
        /\ quiet' = FALSE
        /\ IF hstack # <<>> /\ pc \in CheckPositions
           THEN /\ ops' = {}
                /\ entry' = NoEntry
                /\ foreground_hwnd' = 0
                /\ monitor_rect' = <<>>
                /\ hwnd' = None
           ELSE UNCHANGED <<ops, entry, foreground_hwnd, monitor_rect, hwnd>>

\* if hook_handles: uninstall_event_hooks(hook_handles)
\* (no try block around the call: a raising UnhookWinEvent leaves cleanup())
uninstall_event_hooks ==
    /\ At("k_unhook")
    /\ \/ /\ IF hook_handles # <<>>
             THEN winHooks' = winHooks \ Range(hook_handles) /\ Goto("k_clearhooks")
             ELSE winHooks' = winHooks /\ Goto("k_showtb")
          /\ UNCHANGED <<exit_code, localVars, histVars, failed>>
       \/ /\ cleanupFaults
          /\ hook_handles # <<>>
          /\ CleanupRaises
          /\ failed' = failed \cup {"unhook"}
          /\ UNCHANGED <<winHooks, hooks, observed, blocked, target, cleanups,
                         destroyed>>
    /\ UNCHANGED <<osVars, taskbarVisible, overlay, created, quitPosted,
                   WINDOW_TITLES, cleanupFaults, globalVars, ret, trayRunning,
                   signals>>

\* hook_handles = []
cleanup_clear_hooks ==
    /\ At("k_clearhooks")
    /\ hook_handles' = <<>>
    /\ Goto("k_showtb")
    /\ UNCHANGED <<osVars, wmVars, WINDOW_TITLES, faultVars, black_window_hwnd,
                   black_bars_active, tray_icon, shutting_down, ret, trayRunning,
                   signals, exit_code, localVars, histVars>>

\* Variant: cleanup() does not restore the taskbar.
show_taskbar_skipped ==
    /\ At("k_showtb")
    /\ Goto("k_destroy")
    /\ UNCHANGED <<osVars, wmVars, WINDOW_TITLES, faultVars, globalVars, ret, trayRunning,
                   signals, exit_code, localVars, histVars>>

\* show_taskbar()  (always restore the taskbar)
\* (no try block in show_taskbar or around the call: a raising taskbar
\* lookup leaves cleanup())
show_taskbar ==
    /\ At("k_showtb")
    /\ \/ /\ taskbarVisible' = TRUE
          /\ Goto("k_destroy")
          /\ UNCHANGED <<exit_code, localVars, histVars, failed>>
       \/ /\ cleanupFaults
          /\ CleanupRaises
          /\ failed' = failed \cup {"show_taskbar"}
          /\ UNCHANGED <<taskbarVisible, hooks, observed, blocked, target,
                         cleanups, destroyed>>
    /\ UNCHANGED <<osVars, overlay, created, winHooks, quitPosted,
                   WINDOW_TITLES, cleanupFaults, globalVars, ret, trayRunning,
                   signals>>

\* if black_window_hwnd: destroy_black_window(black_window_hwnd)
\* DestroyWindow sends WM_DESTROY, whose handler posts WM_QUIT; on a dead
\* handle it raises inside the try and is swallowed.
destroy_black_window ==
    /\ At("k_destroy")
    /\ IF black_window_hwnd # None /\ black_window_hwnd # 0
       THEN /\ IF black_window_hwnd \in DOMAIN overlay
               THEN /\ overlay' = DropOverlay(black_window_hwnd)
                    /\ zorder' = Remove(zorder, black_window_hwnd)
                    /\ quitPosted' = TRUE
                    /\ destroyed' = destroyed + 1
               ELSE UNCHANGED <<overlay, zorder, quitPosted, destroyed>>
            /\ Goto("k_setnone")
       ELSE /\ UNCHANGED <<overlay, zorder, quitPosted, destroyed>>
            /\ Goto("k_ret")
    /\ UNCHANGED <<windows, foreground, minimized, monitorOK, taskbarVisible,
                   created, winHooks, WINDOW_TITLES, faultVars, globalVars, ret,
                   trayRunning, signals, exit_code, localVars, ops, entry,
                   observed, quiet, blocked, cleanups,
                   target>>

\* black_window_hwnd = None
cleanup_clear_hwnd ==
    /\ At("k_setnone")
    /\ black_window_hwnd' = None
    /\ Goto("k_ret")
    /\ UNCHANGED <<osVars, wmVars, WINDOW_TITLES, faultVars, black_bars_active,
                   hook_handles, tray_icon, shutting_down, ret, trayRunning,
                   signals, exit_code, localVars, histVars>>

\* cleanup() returns: the signal handler resumes the interrupted statement,
\* main() ends.
cleanup_return ==
    /\ At("k_ret")
    /\ IF hstack # <<>>
       THEN hstack' = Tail(hstack) /\ pc' = pc
       ELSE hstack' = hstack /\ pc' = "done"
    /\ UNCHANGED <<osVars, wmVars, WINDOW_TITLES, faultVars, globalVars, ret, trayRunning,
                   signals, exit_code, localVars, histVars>>

\* ================================================================ signals
\* SIGINT / SIGTERM arrives: Python runs signal_handler on the main thread
\* before its next statement.
deliver_signal ==
    /\ signals < MaxSignals
    /\ pc # "done"
    /\ signals' = signals + 1
    /\ hstack' = <<"s_set">> \o hstack
    /\ quiet' = FALSE
    /\ UNCHANGED <<osVars, wmVars, WINDOW_TITLES, faultVars, globalVars, pc, ret,
                   trayRunning, exit_code, localVars, ops, entry, observed,
                   blocked, cleanups, destroyed,
                   target>>

\* shutting_down = True
signal_handler ==
    /\ At("s_set")
    /\ shutting_down' = TRUE
    /\ Goto("k_tray")
    /\ UNCHANGED <<osVars, wmVars, WINDOW_TITLES, faultVars, black_window_hwnd,
                   black_bars_active, hook_handles, tray_icon, ret, trayRunning,
                   signals, exit_code, localVars, histVars>>

\* ============================================================ tray thread
\* Variant: the Exit handler also restores the taskbar itself.
on_tray_quit_restores_taskbar ==
    /\ trayRunning
    /\ pc # "done"
    /\ trayRunning' = FALSE
    /\ shutting_down' = TRUE
    /\ taskbarVisible' = TRUE
    /\ UNCHANGED <<osVars, overlay, created, winHooks, quitPosted,
                   WINDOW_TITLES, faultVars, black_window_hwnd,
                   black_bars_active, hook_handles, tray_icon, pc, hstack, ret,
                   signals, exit_code, localVars, histVars>>

\* Variant: the Exit handler stops the icon but forgets the flag.
on_tray_quit_forgets_flag ==
    /\ trayRunning
    /\ pc # "done"
    /\ trayRunning' = FALSE
    /\ UNCHANGED <<osVars, wmVars, WINDOW_TITLES, faultVars, globalVars, pc,
                   hstack, ret, signals, exit_code, localVars, histVars>>

\* on_tray_quit: icon.stop(); shutting_down = True
on_tray_quit ==
    /\ trayRunning
    /\ pc # "done"
    /\ trayRunning' = FALSE
    /\ shutting_down' = TRUE
    /\ UNCHANGED <<osVars, wmVars, WINDOW_TITLES, faultVars, black_window_hwnd,
                   black_bars_active, hook_handles, tray_icon, pc, hstack, ret,
                   signals, exit_code, localVars, histVars>>

\* ==================================================================== Next
Next ==
    \/ \E w \in AppWindows : SetForeground(w)
    \/ \E w \in Minimizable : Minimize(w)
    \/ \E w \in Minimizable : Restore(w)
    \/ \E w \in AppWindows, a \in AppWindows \cup DOMAIN overlay : Reorder(w, a)
    \/ \E w \in Closable : CloseWindow(w)
    \/ MonitorLookupChanges
    \/ install_event_hooks
    \/ main_assign_hooks
    \/ main_check_hooks
    \/ main_start_tray
    \/ main_initial_check
    \/ main_loop_test
    \/ peek_deliver_event
    \/ peek_quit
    \/ peek_none_loop_exit
    \/ win_event_callback
    \/ main_finally
    \/ check_and_update_state
    \/ activate_get_rect
    \/ activate_test_none
    \/ create_black_window
    \/ activate_assign_hwnd
    \/ show_black_window
    \/ hide_taskbar
    \/ activate_set_active
    \/ hide_black_window
    \/ deactivate_show_taskbar
    \/ deactivate_set_inactive
    \/ ensure_test_none
    \/ ensure_black_window_z_order
    \/ check_return
    \/ cleanup_stop_tray
    \/ uninstall_event_hooks
    \/ cleanup_clear_hooks
    \/ show_taskbar
    \/ destroy_black_window
    \/ cleanup_clear_hwnd
    \/ cleanup_return
    \/ deliver_signal
    \/ signal_handler
    \/ on_tray_quit

Spec == Init /\ [][Next]_vars

\* Steps of the main thread: main(), the callbacks and signal handlers it
\* runs, and cleanup().
MainThread ==
    \/ install_event_hooks
    \/ main_assign_hooks
    \/ main_check_hooks
    \/ main_start_tray
    \/ main_initial_check
    \/ main_loop_test
    \/ peek_deliver_event
    \/ peek_quit
    \/ peek_none_loop_exit
    \/ win_event_callback
    \/ main_finally
    \/ check_and_update_state
    \/ activate_get_rect
    \/ activate_test_none
    \/ create_black_window
    \/ activate_assign_hwnd
    \/ show_black_window
    \/ hide_taskbar
    \/ activate_set_active
    \/ hide_black_window
    \/ deactivate_show_taskbar
    \/ deactivate_set_inactive
    \/ ensure_test_none
    \/ ensure_black_window_z_order
    \/ check_return
    \/ cleanup_stop_tray
    \/ uninstall_event_hooks
    \/ cleanup_clear_hooks
    \/ show_taskbar
    \/ destroy_black_window
    \/ cleanup_clear_hwnd
    \/ cleanup_return
    \/ signal_handler

\* Fair scheduling: the main thread keeps running, and PeekMessageW returns
\* after the window events it delivers, so the loop condition is tested
\* again and again however many events arrive.
LiveSpec ==
    /\ Init
    /\ [][Next]_vars
    /\ WF_vars(MainThread)
    /\ SF_vars(peek_none_loop_exit)

\* The same program when cleanup()'s unprotected calls may raise.
FaultSpec == FaultInit /\ [][Next]_vars

\* ================================================================= claims
\* check_and_update_state() is about to return normally to its caller.
AtReturn == hstack = <<>> /\ pc = "c_ret"

\* cleanup() is about to return (to main()'s finally or to signal_handler).
AfterCleanup == Cur = "k_ret"

\* The foreground window's title is in the monitored set and the window is
\* not minimized, read from the desktop itself.
ForegroundIsTarget ==
    /\ \E i \in DOMAIN WINDOW_TITLES :
          WINDOW_TITLES[i] = (IF foreground \in windows THEN Title(foreground) ELSE "")
    /\ foreground \notin minimized

BackdropBehindForeground ==
    /\ black_window_hwnd \in DOMAIN overlay
    /\ overlay[black_window_hwnd].visible
    /\ \E i \in 1..(Len(zorder) - 1) :
          zorder[i] = foreground /\ zorder[i + 1] = black_window_hwnd

NoBackdropVisible == \A h \in DOMAIN overlay : ~overlay[h].visible

\* C1 (as stated): each time check_and_update_state() returns,
\* black_bars_active is true iff the foreground window is monitored and not
\* minimized, whether or not the monitor-rect lookup succeeded.
C1_Original ==
    AtReturn => (black_bars_active <=> ForegroundIsTarget)

\* C1 (amended): each time check_and_update_state() returns,
\* black_bars_active is true iff the foreground window is monitored and not
\* minimized and, when black bars were inactive at the start of the call,
\* the monitor-rect lookup succeeded.
C1_ActiveIffTargetAndRect ==
    AtReturn =>
        (black_bars_active <=>
            ForegroundIsTarget /\ (entry.active \/ entry.rectOK))

C1_Witness ==
    /\ AtReturn
    /\ ForegroundIsTarget
    /\ ~entry.active
    /\ black_bars_active
    /\ ret = "callback"

\* C2: when main() has finished, on every exit path and for every point at
\* which a signal or the tray Exit arrived, the taskbar is shown and no
\* backdrop window exists.
C2_ExitRestoresDesktop ==
    pc = "done" => taskbarVisible /\ DOMAIN overlay = {}

C2_Witness ==
    /\ pc = "done"
    /\ black_bars_active
    /\ destroyed > 0
    /\ signals > 0

\* C3 (as stated): after each check_and_update_state() return and after
\* each cleanup() return, the backdrop exists and is visible iff
\* black_bars_active is true.
C3_Original ==
    (AtReturn \/ AfterCleanup) =>
        (black_bars_active <=>
            (black_window_hwnd \in DOMAIN overlay /\ overlay[black_window_hwnd].visible))

\* C4: before shutdown begins, each time check_and_update_state() returns
\* the taskbar is hidden exactly when black bars are active; when active the
\* backdrop is visible immediately behind the foreground window, and when
\* the foreground is not a monitored, non-minimized window the backdrop is
\* hidden and the taskbar shown.
C4_TaskbarMirrorsActive ==
    (AtReturn /\ ~shutting_down) =>
        /\ taskbarVisible <=> ~black_bars_active
        /\ black_bars_active => BackdropBehindForeground
        /\ ~black_bars_active => NoBackdropVisible
        /\ ~ForegroundIsTarget => ~black_bars_active

C4_Witness ==
    /\ AtReturn
    /\ ~shutting_down
    /\ entry.active
    /\ ~black_bars_active
    /\ foreground = 0
    /\ taskbarVisible
    /\ black_window_hwnd \in DOMAIN overlay

\* C5: at most one backdrop window exists at any time, create_black_window
\* is called only while black_window_hwnd is None, and black_window_hwnd
\* never changes from one handle to another (an activation after a
\* deactivation reuses the handle).
C5_SingleBackdrop ==
    /\ [](Cardinality(DOMAIN overlay) <= 1)
    /\ []((hstack = <<>> /\ pc = "a_create") => black_window_hwnd = None)
    /\ [][(black_window_hwnd # None /\ black_window_hwnd' # None)
            => black_window_hwnd' = black_window_hwnd]_vars
    /\ []((AtReturn /\ signals = 0 /\ entry.hwnd # None)
            => (black_window_hwnd = entry.hwnd /\ black_window_hwnd \in DOMAIN overlay))

C5_Witness ==
    /\ AtReturn
    /\ signals = 0
    /\ entry.hwnd # None
    /\ ~entry.active
    /\ black_bars_active
    /\ black_window_hwnd = entry.hwnd
    /\ created = 1

\* C6: a check_and_update_state() call that follows a returned call with no
\* desktop change (and no signal) in between issues no window creation, no
\* backdrop show/hide/reposition and no taskbar show/hide, and leaves
\* black_bars_active, black_window_hwnd, the backdrop and the taskbar as
\* they were.
C6_Idempotent ==
    (AtReturn /\ entry.quiet /\ signals = 0) =>
        /\ ops = {}
        /\ black_bars_active = entry.active
        /\ black_window_hwnd = entry.hwnd
        /\ overlay = entry.overlay
        /\ taskbarVisible = entry.taskbar

C6_Witness ==
    /\ AtReturn
    /\ entry.quiet
    /\ signals = 0
    /\ black_bars_active
    /\ ForegroundIsTarget

\* C7: while black bars are active for a monitored, non-minimized window
\* that stays foreground, if the window directly below it is not the
\* backdrop, then after the next check_and_update_state() the backdrop is
\* again immediately below it, and the backdrop's visibility and size and
\* the taskbar state are unchanged.
C7_DriftCorrected ==
    (AtReturn /\ signals = 0 /\ entry.active /\ entry.isTarget
        /\ entry.prev = foreground /\ entry.drift) =>
        /\ BackdropBehindForeground
        /\ overlay = entry.overlay
        /\ taskbarVisible = entry.taskbar
        /\ black_bars_active

C7_Witness ==
    /\ AtReturn
    /\ signals = 0
    /\ entry.active
    /\ entry.isTarget
    /\ entry.prev = foreground
    /\ entry.drift
    /\ BackdropBehindForeground
    /\ ops = {"reposition"}

\* A different monitored, non-minimized window became foreground while
\* black bars were active for another window, and the check is returning.
C8_Case ==
    /\ AtReturn
    /\ signals = 0
    /\ entry.active
    /\ entry.isTarget
    /\ entry.prev # 0
    /\ entry.prev # foreground

\* C8 (as stated): in that case the activation steps are repeated: the
\* backdrop is shown and placed behind the new foreground window, the
\* taskbar hide is re-issued, and no backdrop window is created.
C8_Original ==
    C8_Case =>
        /\ "show" \in ops
        /\ "hide_taskbar" \in ops
        /\ "create" \notin ops
        /\ BackdropBehindForeground

\* C8 (amended): in that case the check only corrects the z-order: the
\* backdrop ends up visible immediately behind the new foreground window
\* through at most a reposition, the taskbar stays hidden without a hide
\* being re-issued, black bars stay active and no backdrop window is created.
C8_RetargetByReposition ==
    C8_Case =>
        /\ ops \subseteq {"reposition"}
        /\ BackdropBehindForeground
        /\ ~taskbarVisible
        /\ black_bars_active
        /\ black_window_hwnd = entry.hwnd
        /\ overlay = entry.overlay

C8_Witness ==
    /\ C8_Case
    /\ ops = {"reposition"}
    /\ BackdropBehindForeground
    /\ entry.prev \in windows

\* C9: if a monitored, non-minimized window is foreground, black bars are
\* inactive and the monitor rect cannot be resolved, check_and_update_state()
\* issues no window-manager mutation and black_bars_active stays false; a
\* later check for that window at which the rect is resolvable activates.
C9_BlockedThenActivated ==
    /\ (AtReturn /\ ForegroundIsTarget /\ ~entry.active /\ ~entry.rectOK) =>
          /\ ops = {}
          /\ ~black_bars_active
          /\ signals = 0 =>
                /\ black_window_hwnd = entry.hwnd
                /\ overlay = entry.overlay
                /\ taskbarVisible
    /\ (AtReturn /\ blocked # 0 /\ blocked = foreground /\ ForegroundIsTarget
            /\ entry.rectOK) =>
          black_bars_active

C9_Witness ==
    /\ AtReturn
    /\ blocked # 0
    /\ blocked = foreground
    /\ entry.rectOK
    /\ black_bars_active
    /\ ~taskbarVisible

\* C10: as long as no check_and_update_state() call has seen a foreground
\* window that is monitored and not minimized, black_bars_active is false,
\* no backdrop window has been created and the taskbar is shown.
C10_NeverActivatedUnobserved ==
    ~observed =>
        /\ ~black_bars_active
        /\ created = 0
        /\ DOMAIN overlay = {}
        /\ black_window_hwnd = None
        /\ taskbarVisible

C10_Witness ==
    /\ AtReturn
    /\ ~observed
    /\ ret = "callback"
    /\ WINDOW_TITLES = <<>>
    /\ foreground = 1
    /\ foreground \notin minimized

\* C11 (as stated): if install_event_hooks() returned no handle, main()
\* never calls check_and_update_state() (no backdrop is created, the taskbar
\* is never hidden, the tray is not started), still runs cleanup() and exits
\* with status 1; if a hook was installed the startup goes on to the eager
\* check before main() can end, and main() exits with status 0.
C11_Original ==
    /\ (pc \notin {"m_install", "m_assign"} /\ hooks = <<>>) =>
          /\ pc \notin CheckPositions \cup {"m_tray", "m_initial", "m_loop", "m_peek", "cb_entry"}
          /\ ret = "none"
          /\ created = 0
          /\ DOMAIN overlay = {}
          /\ taskbarVisible
          /\ ~black_bars_active
          /\ ~tray_icon
    /\ (pc = "done" /\ hooks = <<>>) => (exit_code = 1 /\ cleanups >= 1)
    /\ (pc \in {"m_finally", "done"} /\ hooks # <<>>) => ret # "none"
    /\ (pc = "done" /\ hooks # <<>>) => (exit_code = 0 /\ cleanups >= 1)

\* C12: when main() reaches its message loop after the eager
\* check_and_update_state() call (no window event has been delivered yet,
\* no signal has arrived), a monitored, non-minimized foreground window
\* with a resolvable monitor rect has black bars active: the backdrop is
\* visible right behind it and the taskbar is hidden.
C12_EagerStartupCheck ==
    (hstack = <<>> /\ pc = "m_loop" /\ signals = 0
        /\ ForegroundIsTarget /\ monitorOK) =>
        /\ black_bars_active
        /\ BackdropBehindForeground
        /\ ~taskbarVisible

C12_Witness ==
    /\ hstack = <<>>
    /\ pc = "m_loop"
    /\ signals = 0
    /\ ForegroundIsTarget
    /\ black_bars_active
    /\ created = 1
    /\ Len(hook_handles) = 1

\* Window-manager mutations the re-evaluation path may not issue once the
\* shutdown has begun.
ShutdownForbidden == {"create", "show", "hide", "reposition", "hide_taskbar"}

\* C13 (as stated): once shutting_down is true, check_and_update_state()
\* and the functions it calls issue no backdrop creation, no backdrop
\* show/hide/reposition and no taskbar hide, whenever the tray Exit or a
\* signal arrived.
C13_Original ==
    [][shutting_down => (ops' \ ops) \cap ShutdownForbidden = {}]_vars

\* C14: the step that takes win_event_callback from its entry, with
\* shutting_down already true, returns to the message loop: it does not
\* read the foreground window, issues no backdrop or taskbar operation and
\* leaves black_bars_active and black_window_hwnd unchanged.
C14_DiscardedWhenShuttingDown ==
    [][(hstack = <<>> /\ pc = "cb_entry" /\ shutting_down
            /\ hstack' = <<>> /\ pc' # pc) =>
          /\ pc' = "m_peek"
          /\ UNCHANGED <<foreground_hwnd, entry, ops, observed,
                         black_bars_active, black_window_hwnd,
                         overlay, zorder, created, taskbarVisible>>]_vars

C14_Witness ==
    /\ hstack = <<>>
    /\ pc = "cb_entry"
    /\ shutting_down
    /\ black_bars_active
    /\ ~ForegroundIsTarget
    /\ ~taskbarVisible

\* C15 (as stated): the backdrop window is created only by an activation
\* (after a check saw a monitored, non-minimized foreground window), it is
\* destroyed only during shutdown and at most once, no window is created
\* after one was destroyed, and a created window has been destroyed when
\* main() ends.
C15_Original ==
    /\ created > 0 => observed
    /\ destroyed > 0 => shutting_down
    /\ destroyed <= 1
    /\ created <= 1
    /\ pc = "done" => destroyed = created

\* C16 (as stated): cleanup() is started at most once during the process
\* lifetime, and exactly once by the time main() ends.
C16_Original ==
    /\ cleanups <= 1
    /\ pc = "done" => cleanups = 1

\* C17 (as stated): cleanup() never starts while shutting_down is false;
\* when cleanup() shows the taskbar every installed hook has been
\* uninstalled, and when it comes to the backdrop the taskbar is shown.
C17_Original ==
    /\ Cur = "k_tray" => shutting_down
    /\ Cur \in {"k_showtb", "k_destroy", "k_setnone", "k_ret"} => winHooks = {}
    /\ Cur \in {"k_destroy", "k_setnone", "k_ret"} => taskbarVisible

\* C18 (as stated): a raising hook removal or taskbar restore inside
\* cleanup() is swallowed and the later steps still run.  Already without
\* any signal (cleanup() runs once, from main()'s finally clause): when
\* main() has ended no backdrop window exists, and the taskbar is shown
\* unless showing it was the step that raised.
C18_Original ==
    (pc = "done" /\ signals = 0) =>
        /\ DOMAIN overlay = {}
        /\ "show_taskbar" \notin failed => taskbarVisible

\* A step of the tray thread: its Exit handler stops the icon while the
\* main thread stays where it is.
TrayStep == trayRunning /\ ~trayRunning' /\ pc' = pc /\ hstack' = hstack

\* C19: a step of the tray thread sets shutting_down and writes no other
\* state of the program or of the window manager (no check, no activation
\* or deactivation, no backdrop or taskbar operation, no cleanup), and
\* black_bars_active and black_window_hwnd change only in steps of the
\* main thread.
C19_TrayOnlyRequestsExit ==
    [][/\ TrayStep =>
            /\ shutting_down'
            /\ UNCHANGED <<black_bars_active, black_window_hwnd, hook_handles,
                           tray_icon, taskbarVisible, overlay, zorder, created,
                           destroyed, winHooks, quitPosted, cleanups, ops,
                           entry, foreground_hwnd, monitor_rect, hwnd,
                           exit_code>>
       /\ (black_bars_active' # black_bars_active
              \/ black_window_hwnd' # black_window_hwnd) =>
            (pc' # pc \/ hstack' # hstack)]_vars

C19_Witness ==
    /\ shutting_down
    /\ signals = 0
    /\ tray_icon
    /\ ~trayRunning
    /\ hstack = <<>>
    /\ pc = "a_hidetb"
    /\ ~black_bars_active
    /\ taskbarVisible

\* Termination has been requested: the tray's Exit was clicked (the icon
\* is stopped while main() still holds it) or a signal was delivered.
TerminationRequested == (tray_icon /\ ~trayRunning) \/ signals > 0

\* C20: once termination is requested, main() eventually ends (the message
\* loop exits and the last cleanup() returns), whatever window events keep
\* being delivered.
C20_Terminates == TerminationRequested ~> (pc = "done")

C20_Witness ==
    /\ pc = "done"
    /\ signals = 0
    /\ shutting_down
    /\ cleanups = 1
    /\ destroyed = 1
    /\ exit_code = 0

====
